---- MODULE Spec2Model ----
(***************************************************************************)
(* Model of pkg/stream.go of gravestench/wav: the byte-cursor reader       *)
(* (streamReader), the byte/bit writer (streamWriter) and the bit          *)
(* accumulator reader (BitStream).                                         *)
(*                                                                         *)
(* Every method is one action.  The value a call returns and the object's  *)
(* fields before the call are recorded in history variables so that the    *)
(* properties can speak about "the result of the last call".               *)
(*                                                                         *)
(* Integers wider than 31 bits are kept as little-endian sequences of      *)
(* 16-bit limbs (a uint32 is <<lo, hi>>, a uint64 four limbs), on which    *)
(* the shifts, ORs and byte truncations of the source are computed.        *)
(***************************************************************************)
EXTENDS Integers, Sequences, FiniteSets, TLC

VARIABLES
    \* ---- streamReader (stream.go:17-20) ----
    rdata,          \* streamReader.data
    position,       \* streamReader.position (uint64)
    \* history of the last streamReader call
    rop,            \* name of the method, "none" before the first call
    rarg,           \* its int argument (count, newPosition, len(p)), else 0
    rerr,           \* TRUE iff it returned io.EOF
    rval,           \* what it returned, as a sequence (bytes, limbs, <<bool>>,
                    \* <<n, the bytes put in p>> for Read)
    rprev,          \* position before the call
    \* ---- streamWriter (stream.go:158-162) ----
    wdata,          \* the bytes of streamWriter.data
    bitOffset,      \* streamWriter.bitOffset
    bitCache,       \* streamWriter.bitCache
    \* history of the streamWriter calls
    pushed,         \* every bit handed to PushBit so far, in order
    wop,            \* name of the last method, "none" before the first call
    warg,           \* its bits argument; the value pushed, for a byte-level push
    wprev,          \* [data, off, cache, pushed] before the last call
    byteLevel,      \* TRUE once a byte-level push has been made
    overMax,        \* TRUE once a PushBits* call exceeded its declared maximum
    wsteps,         \* number of streamWriter calls made
    \* ---- BitStream (stream.go:294-299) ----
    bdata,          \* BitStream.data
    dataPosition,   \* BitStream.dataPosition
    current,        \* BitStream.current
    bitCount,       \* BitStream.bitCount
    \* history of the last BitStream call
    bop,            \* "none" | "ReadBits" | "PeekByte" | "EnsureBits" | "WasteBits"
    barg,           \* the bitCount argument of the last call
    bout,           \* "none" | "ok" | "eod" | "panic"
    bres,           \* the int the last call returned (-1 on end of data; 1 / 0 for
                    \* the bool of EnsureBits)
    pdp, pcur, pbc, \* dataPosition, current, bitCount before the last call
    consumed,       \* total bits handed out by the earlier successful ReadBits calls
    \* ---- a write-then-read session ----
    rtpc,           \* "idle" | "start" | "pushed" | "padded" | "built" | "read"
    rtv,            \* the value handed to the writer
    rtbits,         \* the bit count handed to the writer
    rtpad           \* number of padding bits pushed after the value

rvars == <<rdata, position, rop, rarg, rerr, rval, rprev>>

wvars == <<wdata, bitOffset, bitCache, pushed, wop, warg, wprev, byteLevel,
           overMax, wsteps>>

bvars == <<bdata, dataPosition, current, bitCount, bop, barg, bout, bres,
           pdp, pcur, pbc, consumed>>

rtvars == <<rtpc, rtv, rtbits, rtpad>>

vars == <<rvars, wvars, bvars, rtvars>>

----------------------------------------------------------------------------
\* Program constants (stream.go:9-14, 289-291)
bitsPerByte == 8
bytesPerint16 == 2
bytesPerint32 == 4
bytesPerint64 == 8
maxBits == 16

\* Bounds of the model
MaxLen == 3                     \* longest BitStream source buffer
MaxReadBits == 17               \* largest bitCount passed to ReadBits
ByteVals == {0, 165, 255}       \* byte values the source buffers are built from

----------------------------------------------------------------------------
\* Integer helpers: Go's shifts and bitwise operators on non-negative ints

RECURSIVE Pow2(_)
Pow2(n) == IF n <= 0 THEN 1 ELSE 2 * Pow2(n - 1)

\* x << uint(s) on a 64-bit int: a negative s converts to a huge unsigned
\* count, and Go defines a shift by >= the width as 0
Shl(x, s) == IF s < 0 \/ s >= 64 THEN 0 ELSE x * Pow2(s)

\* x >> uint(s) for x >= 0
Shr(x, s) == IF s < 0 \/ s >= 64 THEN 0 ELSE x \div Pow2(s)

RECURSIVE BitAnd(_, _)
BitAnd(a, b) ==
    IF a = 0 \/ b = 0 THEN 0
    ELSE (a % 2) * (b % 2) + 2 * BitAnd(a \div 2, b \div 2)

RECURSIVE BitOr(_, _)
BitOr(a, b) ==
    IF a = 0 THEN b
    ELSE IF b = 0 THEN a
    ELSE (IF a % 2 = 1 \/ b % 2 = 1 THEN 1 ELSE 0) + 2 * BitOr(a \div 2, b \div 2)

SeqsUpTo(S, n) == UNION {[1..k -> S] : k \in 0..n}

----------------------------------------------------------------------------
\* Wide integers as little-endian sequences of 16-bit limbs

\* mutant: the odd bytes are not shifted
ByteShifted_m(b, k, w) ==
    [i \in 1..w |-> IF i = (k \div 2) + 1 THEN b ELSE 0]

\* uintN(b) << (8*k) for a byte b, as a word of w limbs
ByteShifted(b, k, w) ==
    [i \in 1..w |-> IF i = (k \div 2) + 1 THEN Shl(b, 8 * (k % 2)) ELSE 0]

\* a | b on words of equal length
WordOr(a, b) == [i \in 1..Len(a) |-> BitOr(a[i], b[i])]

\* byte(val >> (8*k)): the truncation of the shifted word to its low 8 bits
WordByte(val, k) == Shr(val[(k \div 2) + 1], 8 * (k % 2)) % 256

\* val & 1
WordBit0(val) == val[1] % 2

\* val >> 1 (unsigned)
WordShr1(val) ==
    [i \in 1..Len(val) |->
        (val[i] \div 2) + (IF i < Len(val) THEN (val[i + 1] % 2) * 32768 ELSE 0)]

\* intN(val): the same bits as two's complement; the top limb carries the sign
WordSigned(val) ==
    [i \in 1..Len(val) |->
        IF i = Len(val) /\ val[i] >= 32768 THEN val[i] - 65536 ELSE val[i]]

\* uintN(val) of a signed word
WordUnsigned(val) ==
    [i \in 1..Len(val) |-> IF val[i] < 0 THEN val[i] + 65536 ELSE val[i]]

----------------------------------------------------------------------------
\* streamReader

\* Bounds of the reader model.  The 64-bit cursor arithmetic is modelled at a
\* narrower width: position lives in 0..PosModulus-1 and wraps as uint64 does,
\* int arguments live in MinInt..MaxInt.
MaxRLen == 9
PosModulus == 32
MaxInt == (PosModulus \div 2) - 1
MinInt == 0 - (PosModulus \div 2)

\* uint64(count) for an int count
ToUint64(count) == count % PosModulus

\* the source buffers: every prefix of three byte patterns
RPattern(k, n) == [i \in 1..n |-> (k * i) % 256]
RBufs == {RPattern(k, n) : k \in {1, 85, 255}, n \in 0..MaxRLen}

ReadCounts == {MinInt, -1, 0, 1, 2, 3, 4, 8, MaxRLen + 1, MaxInt}
SkipCounts == {MinInt, -1, 0, 1, 2, 4, 8, MaxInt}
ReadLens == {0, 1, 2, MaxRLen + 1}

\* Size (stream.go:106-108)
Size == Len(rdata)

\* mutant: end of data only exactly at the end
EOF_m == position = Len(rdata)

\* EOF (stream.go:153-155)
EOF == position >= Len(rdata)

\* mutant: a failing read consumes the bytes that were available
ReadBytesAt_m(pos, count) ==
    IF count <= 0
        THEN [err |-> FALSE, b |-> <<>>, pos |-> pos]
    ELSE IF pos >= Len(rdata) \/ (pos + (count % PosModulus)) % PosModulus > Len(rdata)
        THEN [err |-> TRUE, b |-> <<>>,
              pos |-> IF pos < Len(rdata) THEN Len(rdata) ELSE pos]
    ELSE [err |-> FALSE,
          b   |-> SubSeq(rdata, pos + 1, pos + count),
          pos |-> (pos + (count % PosModulus)) % PosModulus]

\* mutant: the bounds are tested before the count
ReadBytesAt_b(pos, count) ==
    IF pos >= Len(rdata) \/ (pos + (count % PosModulus)) % PosModulus > Len(rdata)
        THEN [err |-> TRUE, b |-> <<>>, pos |-> pos]
    ELSE IF count <= 0
        THEN [err |-> FALSE, b |-> <<>>, pos |-> pos]
    ELSE [err |-> FALSE,
          b   |-> SubSeq(rdata, pos + 1, pos + count),
          pos |-> (pos + (count % PosModulus)) % PosModulus]

\* ReadBytes (stream.go:111-125) from cursor pos: the error, the bytes and
\* the cursor afterwards
ReadBytesAt(pos, count) ==
    IF count <= 0
        THEN [err |-> FALSE, b |-> <<>>, pos |-> pos]
    ELSE IF pos >= Size \/ (pos + ToUint64(count)) % PosModulus > Size
        THEN [err |-> TRUE, b |-> <<>>, pos |-> pos]
    ELSE [err |-> FALSE,
          b   |-> SubSeq(rdata, pos + 1, pos + count),
          pos |-> (pos + ToUint64(count)) % PosModulus]

\* ReadByte (stream.go:33-42) from cursor pos
ReadByteAt(pos) ==
    IF pos >= Size
        THEN [err |-> TRUE, b |-> 0, pos |-> pos]
    ELSE [err |-> FALSE, b |-> rdata[pos + 1], pos |-> (pos + 1) % PosModulus]

RECURSIVE OrBytes(_, _, _)
\* uintN(b[0]) | uintN(b[1])<<8 | ... (stream.go:57, 74, 91-92)
OrBytes(b, k, w) ==
    IF k = Len(b) THEN [i \in 1..w |-> 0]
    ELSE WordOr(ByteShifted(b[k + 1], k, w), OrBytes(b, k + 1, w))

RCall(op, arg) ==
    /\ rop' = op
    /\ rarg' = arg
    /\ rprev' = position
    /\ UNCHANGED rdata

\* ReadUInt16 / ReadUInt32 / ReadUInt64 (stream.go:51-58, 68-75, 85-93)
ReadUIntN(op, nbytes) ==
    /\ RCall(op, 0)
    /\ LET r == ReadBytesAt(position, nbytes) IN
       /\ position' = r.pos
       /\ rerr' = r.err
       /\ rval' = IF r.err THEN [i \in 1..((nbytes + 1) \div 2) |-> 0]
                  ELSE OrBytes(r.b, 0, (nbytes + 1) \div 2)

\* ReadInt16 / ReadInt32 / ReadInt64 (stream.go:45-48, 61-64, 78-81)
ReadIntN(op, nbytes) ==
    /\ RCall(op, 0)
    /\ LET r == ReadBytesAt(position, nbytes) IN
       /\ position' = r.pos
       /\ rerr' = r.err
       /\ rval' = IF r.err THEN [i \in 1..((nbytes + 1) \div 2) |-> 0]
                  ELSE WordSigned(OrBytes(r.b, 0, (nbytes + 1) \div 2))

ReadUInt16 == ReadUIntN("ReadUInt16", bytesPerint16)
ReadUInt32 == ReadUIntN("ReadUInt32", bytesPerint32)
ReadUInt64 == ReadUIntN("ReadUInt64", bytesPerint64)
ReadInt16 == ReadIntN("ReadInt16", bytesPerint16)
ReadInt32 == ReadIntN("ReadInt32", bytesPerint32)
ReadInt64 == ReadIntN("ReadInt64", bytesPerint64)

\* ReadByte (stream.go:33-42)
ReadByte ==
    /\ RCall("ReadByte", 0)
    /\ LET r == ReadByteAt(position) IN
       /\ position' = r.pos
       /\ rerr' = r.err
       /\ rval' = <<r.b>>

\* ReadBytes (stream.go:111-125)
ReadBytes(count) ==
    /\ RCall("ReadBytes", count)
    /\ LET r == ReadBytesAt(position, count) IN
       /\ position' = r.pos
       /\ rerr' = r.err
       /\ rval' = r.b

\* SkipBytes (stream.go:128-130)
SkipBytes(count) ==
    /\ RCall("SkipBytes", count)
    /\ position' = (position + ToUint64(count)) % PosModulus
    /\ rerr' = FALSE
    /\ rval' = <<>>

\* SetPosition (stream.go:101-103)
SetPosition(newPosition) ==
    /\ RCall("SetPosition", newPosition)
    /\ position' = newPosition
    /\ rerr' = FALSE
    /\ rval' = <<>>

\* Position (stream.go:96-98)
Position ==
    /\ RCall("Position", 0)
    /\ rval' = <<position>>
    /\ rerr' = FALSE
    /\ UNCHANGED position

\* EOF (stream.go:153-155) as a call
CallEOF ==
    /\ RCall("EOF", 0)
    /\ rval' = <<EOF>>
    /\ rerr' = FALSE
    /\ UNCHANGED position

RECURSIVE ReadLoop_m(_, _, _, _)
\* mutant: the buffer-full test comes before the end-of-data test
ReadLoop_m(pos, i, lenp, got) ==
    IF i >= lenp THEN [n |-> i, err |-> FALSE, b |-> got, pos |-> pos]
    ELSE IF pos >= Len(rdata) THEN [n |-> i, err |-> TRUE, b |-> got, pos |-> pos]
    ELSE ReadLoop_m((pos + 1) % PosModulus, i + 1, lenp, Append(got, rdata[pos + 1]))

RECURSIVE ReadLoop(_, _, _, _)
\* the loop of Read (stream.go:136-149) at index i with cursor pos, having
\* filled p[0..i-1] with got
ReadLoop(pos, i, lenp, got) ==
    IF pos >= Size THEN [n |-> i, err |-> TRUE, b |-> got, pos |-> pos]
    ELSE IF i >= lenp THEN [n |-> i, err |-> FALSE, b |-> got, pos |-> pos]
    ELSE LET r == ReadByteAt(pos) IN
         IF r.err THEN [n |-> i, err |-> TRUE, b |-> got, pos |-> r.pos]
         ELSE ReadLoop(r.pos, i + 1, lenp, Append(got, r.b))

\* Read (stream.go:133-150) into a buffer p of length lenp
Read(lenp) ==
    /\ RCall("Read", lenp)
    /\ LET r == ReadLoop(position, 0, lenp, <<>>) IN
       /\ position' = r.pos
       /\ rerr' = r.err
       /\ rval' = <<r.n, r.b>>

\* CreateStreamReader (stream.go:23-30)
CreateStreamReader(source) ==
    /\ rdata = source
    /\ position = 0
    /\ rop = "none"
    /\ rarg = 0
    /\ rerr = FALSE
    /\ rval = <<>>
    /\ rprev = 0

----------------------------------------------------------------------------
\* streamWriter

\* Bounds of the writer model
MaxOps == 3                     \* streamWriter calls per session

\* the writer's fields (and the bits pushed so far) as a record
WState == [data |-> wdata, off |-> bitOffset, cache |-> bitCache, pushed |-> pushed]

\* GetBytes (stream.go:174-176)
GetBytes == wdata

\* mutant: a pending partial byte is flushed before the bytes are appended
PushBytesOn_f(s, b) ==
    IF s.off # 0
        THEN [s EXCEPT !.data = (s.data \o <<s.cache>>) \o b, !.off = 0, !.cache = 0]
    ELSE [s EXCEPT !.data = s.data \o b]

\* PushBytes (stream.go:179-183)
PushBytesOn(s, b) == [s EXCEPT !.data = s.data \o b]

\* mutant: most significant bit first
BitMask_m(off) == Shl(1, 7 - off) % 256

\* the bit PushBit sets in the scratch byte (stream.go:190)
BitMask(off) == Shl(1, off) % 256

\* mutant: the bit offset is not reset after the byte is appended
PushBitOn_r(s, b) ==
    LET c == IF b THEN BitOr(s.cache, Shl(1, s.off) % 256) ELSE s.cache
        o == s.off + 1
        t == [s EXCEPT !.pushed = Append(s.pushed, b)]
    IN  IF o # bitsPerByte
            THEN [t EXCEPT !.cache = c, !.off = o]
        ELSE [t EXCEPT !.data = t.data \o <<c>>, !.cache = 0, !.off = o]

\* mutant: the scratch byte is not cleared after it is appended
PushBitOn_m(s, b) ==
    LET c == IF b THEN BitOr(s.cache, Shl(1, s.off) % 256) ELSE s.cache
        o == s.off + 1
        t == [s EXCEPT !.pushed = Append(s.pushed, b)]
    IN  IF o # bitsPerByte
            THEN [t EXCEPT !.cache = c, !.off = o]
        ELSE [t EXCEPT !.data = t.data \o <<c>>, !.cache = c, !.off = 0]

\* PushBit (stream.go:188-201)
PushBitOn(s, b) ==
    LET c == IF b THEN BitOr(s.cache, BitMask(s.off)) ELSE s.cache
        o == s.off + 1
        t == [s EXCEPT !.pushed = Append(s.pushed, b)]
    IN  IF o # bitsPerByte
            THEN [t EXCEPT !.cache = c, !.off = o]
        ELSE [PushBytesOn(t, <<c>>) EXCEPT !.cache = 0, !.off = 0]

RECURSIVE PushLoop(_, _, _, _)
\* the loop of PushBits, PushBits16 and PushBits32 (stream.go:211-214,
\* 225-228, 239-242) at index i
\* (the iteration's result is bound through a singleton set so that it is
\* evaluated once)
PushLoop(s, val, i, bits) ==
    IF i >= bits THEN s
    ELSE CHOOSE r \in {PushLoop(t[1], t[2], i + 1, bits) :
                          t \in {<<PushBitOn(s, WordBit0(val) = 1), WordShr1(val)>>}} :
             TRUE

\* mutant: most significant byte first
LittleEndian_m(val, nbytes) == [k \in 1..nbytes |-> WordByte(val, nbytes - k)]

\* the bytes PushUint16 / PushUint32 / PushUint64 write (stream.go:252-255,
\* 264-269, 278-287): byte(val), byte(val >> 8), ...
LittleEndian(val, nbytes) == [k \in 1..nbytes |-> WordByte(val, k - 1)]

WCall(op, arg, s, isByte, isOver) ==
    /\ wop' = op
    /\ warg' = arg
    /\ wprev' = WState
    /\ wdata' = s.data
    /\ bitOffset' = s.off
    /\ bitCache' = s.cache
    /\ pushed' = s.pushed
    /\ byteLevel' = (byteLevel \/ isByte)
    /\ overMax' = (overMax \/ isOver)
    /\ wsteps' = wsteps + 1

\* PushBytes (stream.go:179-183)
PushBytes(b) == WCall("PushBytes", b, PushBytesOn(WState, b), TRUE, FALSE)

\* PushBit (stream.go:188-201)
PushBit(b) == WCall("PushBit", 1, PushBitOn(WState, b), FALSE, FALSE)

\* PushBits (stream.go:204-215): above 8 bits it logs and carries on
PushBits(b, bits) ==
    WCall("PushBits", bits, PushLoop(WState, <<b>>, 0, bits), FALSE,
          bits > bitsPerByte)

\* PushBits16 (stream.go:218-229)
PushBits16(b, bits) ==
    WCall("PushBits16", bits, PushLoop(WState, <<b>>, 0, bits), FALSE,
          bits > bitsPerByte * bytesPerint16)

\* PushBits32 (stream.go:232-243)
PushBits32(b, bits) ==
    WCall("PushBits32", bits, PushLoop(WState, b, 0, bits), FALSE,
          bits > bitsPerByte * bytesPerint32)

\* PushUint16 (stream.go:252-255)
PushUint16(val) ==
    WCall("PushUint16", val,
          PushBytesOn(WState, LittleEndian(val, bytesPerint16)), TRUE, FALSE)

\* PushInt16 (stream.go:246-248)
PushInt16(val) ==
    WCall("PushInt16", val,
          PushBytesOn(WState, LittleEndian(WordUnsigned(val), bytesPerint16)),
          TRUE, FALSE)

\* PushUint32 (stream.go:264-269)
PushUint32(val) ==
    WCall("PushUint32", val,
          PushBytesOn(WState, LittleEndian(val, bytesPerint32)), TRUE, FALSE)

\* PushInt32 (stream.go:258-260)
PushInt32(val) ==
    WCall("PushInt32", val,
          PushBytesOn(WState, LittleEndian(WordUnsigned(val), bytesPerint32)),
          TRUE, FALSE)

\* PushUint64 (stream.go:278-287)
PushUint64(val) ==
    WCall("PushUint64", val,
          PushBytesOn(WState, LittleEndian(val, bytesPerint64)), TRUE, FALSE)

\* PushInt64 (stream.go:272-274)
PushInt64(val) ==
    WCall("PushInt64", val,
          PushBytesOn(WState, LittleEndian(WordUnsigned(val), bytesPerint64)),
          TRUE, FALSE)

\* CreateStreamWriter (stream.go:165-171)
CreateStreamWriter ==
    /\ wdata = <<>>
    /\ bitOffset = 0
    /\ bitCache = 0
    /\ pushed = <<>>
    /\ wop = "none"
    /\ warg = 0
    /\ wprev = [data |-> <<>>, off |-> 0, cache |-> 0, pushed |-> <<>>]
    /\ byteLevel = FALSE
    /\ overMax = FALSE
    /\ wsteps = 0

----------------------------------------------------------------------------
\* BitStream

\* The accumulator state as a record, so the helper methods compose
BState == [dp |-> dataPosition, cur |-> current, bc |-> bitCount]

\* mutant: the resident-bit count is raised before the end-of-data test
EnsureBits_m(s, n) ==
    IF n <= s.bc
        THEN [ok |-> TRUE, st |-> s]
    ELSE IF s.dp >= Len(bdata)
        THEN [ok |-> FALSE, st |-> [s EXCEPT !.bc = s.bc + 8]]
    ELSE [ok |-> TRUE,
          st |-> [dp  |-> s.dp + 1,
                  cur |-> BitOr(s.cur, Shl(bdata[s.dp + 1], s.bc)),
                  bc  |-> s.bc + 8]]

\* EnsureBits (stream.go:341-356): at most ONE byte is pulled per call
EnsureBits(s, n) ==
    IF n <= s.bc
        THEN [ok |-> TRUE, st |-> s]
    ELSE IF s.dp >= Len(bdata)
        THEN [ok |-> FALSE, st |-> s]
    ELSE [ok |-> TRUE,
          st |-> [dp  |-> s.dp + 1,
                  cur |-> BitOr(s.cur, Shl(bdata[s.dp + 1], s.bc)),
                  bc  |-> s.bc + 8]]

\* WasteBits (stream.go:359-363)
WasteBits(s, n) ==
    [dp |-> s.dp, cur |-> Shr(s.cur, n), bc |-> s.bc - n]

\* mutant: the ceiling off by one
ReadBitsPanics_m(n) == n > maxBits + 1

\* the guard of ReadBits (stream.go:315-317)
ReadBitsPanics(n) == n > maxBits

\* mutant: all sixteen bits are kept whatever the count
ReadMask_m(n) == Shr(65535, 0)

\* the mask of ReadBits (stream.go:324)
ReadMask(n) == Shr(65535, maxBits - n)

Record(op, arg) ==
    /\ bop' = op
    /\ barg' = arg
    /\ pdp' = dataPosition
    /\ pcur' = current
    /\ pbc' = bitCount

\* ReadBits (stream.go:314-328)
ReadBits(n) ==
    /\ Record("ReadBits", n)
    /\ IF ReadBitsPanics(n)
         THEN /\ bout' = "panic"
              /\ bres' = 0
              /\ UNCHANGED <<bdata, dataPosition, current, bitCount, consumed>>
         ELSE LET e == EnsureBits(BState, n) IN
              IF ~e.ok
                THEN /\ bout' = "eod"
                     /\ bres' = -1
                     /\ dataPosition' = e.st.dp
                     /\ current' = e.st.cur
                     /\ bitCount' = e.st.bc
                     /\ UNCHANGED <<bdata, consumed>>
                ELSE LET w == WasteBits(e.st, n) IN
                     /\ bout' = "ok"
                     /\ bres' = BitAnd(e.st.cur, ReadMask(n))
                     /\ dataPosition' = w.dp
                     /\ current' = w.cur
                     /\ bitCount' = w.bc
                     /\ consumed' = consumed + n
                     /\ UNCHANGED bdata

\* PeekByte (stream.go:331-338)
PeekByte ==
    /\ Record("PeekByte", bitsPerByte)
    /\ LET e == EnsureBits(BState, bitsPerByte) IN
       /\ dataPosition' = e.st.dp
       /\ current' = e.st.cur
       /\ bitCount' = e.st.bc
       /\ IF ~e.ok
            THEN bout' = "eod" /\ bres' = -1
            ELSE bout' = "ok" /\ bres' = BitAnd(e.st.cur, 255)
    /\ UNCHANGED <<bdata, consumed>>

\* EnsureBits (stream.go:341-356) called by the user of the BitStream
CallEnsureBits(n) ==
    /\ Record("EnsureBits", n)
    /\ LET e == EnsureBits(BState, n) IN
       /\ dataPosition' = e.st.dp
       /\ current' = e.st.cur
       /\ bitCount' = e.st.bc
       /\ bout' = (IF e.ok THEN "ok" ELSE "eod")
       /\ bres' = (IF e.ok THEN 1 ELSE 0)
    /\ UNCHANGED <<bdata, consumed>>

\* WasteBits (stream.go:359-363) called by the user of the BitStream
CallWasteBits(n) ==
    /\ Record("WasteBits", n)
    /\ LET w == WasteBits(BState, n) IN
       /\ dataPosition' = w.dp
       /\ current' = w.cur
       /\ bitCount' = w.bc
    /\ bout' = "ok"
    /\ bres' = 0
    /\ UNCHANGED <<bdata, consumed>>

\* CreateBitStream (stream.go:302-311)
CreateBitStream(newData) ==
    /\ bdata = newData
    /\ dataPosition = 0
    /\ current = 0
    /\ bitCount = 0
    /\ bop = "none"
    /\ barg = 0
    /\ bout = "none"
    /\ bres = 0
    /\ pdp = 0
    /\ pcur = 0
    /\ pbc = 0
    /\ consumed = 0

NoSession ==
    /\ rtpc = "idle"
    /\ rtv = <<>>
    /\ rtbits = 0
    /\ rtpad = 0

----------------------------------------------------------------------------
\* The BitStream alone, over every bounded source buffer

InitBits ==
    /\ \E d \in SeqsUpTo(ByteVals, MaxLen) : CreateBitStream(d)
    /\ CreateStreamReader(<<>>)
    /\ CreateStreamWriter
    /\ NoSession

DoReadBits ==
    /\ \E n \in 1..MaxReadBits : ReadBits(n)
    /\ UNCHANGED <<rvars, wvars, rtvars>>

DoPeekByte ==
    /\ PeekByte
    /\ UNCHANGED <<rvars, wvars, rtvars>>

NextBits == DoReadBits \/ DoPeekByte

SpecBits == InitBits /\ [][NextBits]_vars

----------------------------------------------------------------------------
\* The BitStream with all four methods called from outside.  The arguments
\* are bounded so that the accumulator stays within 31 bits: EnsureBits asks
\* for at most MaxEnsure bits, WasteBits for a count >= 0 that leaves
\* bitCount >= -MaxDebt.

MaxFullLen == 2                 \* longest source buffer
MaxEnsure == 20                 \* largest bitCount passed to EnsureBits
MaxDebt == 8                    \* how far WasteBits may take bitCount below 0
FullByteVals == {165, 255}      \* byte values of the source buffers
EnsureCounts == {0, 1, 8, 9, maxBits, MaxEnsure}
WasteCounts == {0, 1, 3, 8}
FullReadCounts == {0, 1, 3, 8, 12, maxBits}

InitBitsFull ==
    /\ \E d \in SeqsUpTo(FullByteVals, MaxFullLen) : CreateBitStream(d)
    /\ CreateStreamReader(<<>>)
    /\ CreateStreamWriter
    /\ NoSession

BFrame == UNCHANGED <<rvars, wvars, rtvars>>

FullReadBits == (\E n \in FullReadCounts : ReadBits(n)) /\ BFrame
FullPeekByte == PeekByte /\ BFrame
FullEnsureBits == (\E n \in EnsureCounts : CallEnsureBits(n)) /\ BFrame
FullWasteBits ==
    (\E n \in WasteCounts : bitCount - n >= 0 - MaxDebt /\ CallWasteBits(n))
        /\ BFrame

NextBitsFull ==
    \/ FullReadBits
    \/ FullPeekByte
    \/ FullEnsureBits
    \/ FullWasteBits

SpecBitsFull == InitBitsFull /\ [][NextBitsFull]_vars

----------------------------------------------------------------------------
\* The streamReader alone, over the sample buffers

InitReader ==
    /\ \E d \in RBufs : CreateStreamReader(d)
    /\ CreateStreamWriter
    /\ CreateBitStream(<<>>)
    /\ NoSession

RFrame == UNCHANGED <<wvars, bvars, rtvars>>

DoReadByte == ReadByte /\ RFrame
DoReadUInt16 == ReadUInt16 /\ RFrame
DoReadInt16 == ReadInt16 /\ RFrame
DoReadUInt32 == ReadUInt32 /\ RFrame
DoReadInt32 == ReadInt32 /\ RFrame
DoReadUInt64 == ReadUInt64 /\ RFrame
DoReadInt64 == ReadInt64 /\ RFrame
DoReadBytes == (\E c \in ReadCounts : ReadBytes(c)) /\ RFrame
DoSkipBytes == (\E c \in SkipCounts : SkipBytes(c)) /\ RFrame
DoSetPosition == (\E p \in 0..(PosModulus - 1) : SetPosition(p)) /\ RFrame
DoPosition == Position /\ RFrame
DoEOF == CallEOF /\ RFrame
DoRead == (\E n \in ReadLens : Read(n)) /\ RFrame

NextReader ==
    \/ DoReadByte
    \/ DoReadUInt16
    \/ DoReadInt16
    \/ DoReadUInt32
    \/ DoReadInt32
    \/ DoReadUInt64
    \/ DoReadInt64
    \/ DoReadBytes
    \/ DoSkipBytes
    \/ DoSetPosition
    \/ DoPosition
    \/ DoEOF
    \/ DoRead

SpecReader == InitReader /\ [][NextReader]_vars

----------------------------------------------------------------------------
\* The streamWriter alone, MaxOps calls on a fresh writer

InitWriter ==
    /\ CreateStreamWriter
    /\ CreateStreamReader(<<>>)
    /\ CreateBitStream(<<>>)
    /\ NoSession

WFrame == wsteps < MaxOps /\ UNCHANGED <<rvars, bvars, rtvars>>

DoPushBit == (\E b \in BOOLEAN : PushBit(b)) /\ WFrame
DoPushBits == (\E b \in {165}, n \in {3, 8, 9} : PushBits(b, n)) /\ WFrame
DoPushBits16 == (\E b \in {42435}, n \in {12, 17} : PushBits16(b, n)) /\ WFrame
DoPushBits32 ==
    (\E b \in {<<1, 32768>>}, n \in {5, 33} : PushBits32(b, n))
        /\ WFrame
DoPushBytes == (\E b \in {<<7, 9>>} : PushBytes(b)) /\ WFrame
DoPushUint16 == PushUint16(<<4660>>) /\ WFrame
DoPushInt16 == PushInt16(<<-2>>) /\ WFrame
DoPushUint32 == PushUint32(<<22136, 4660>>) /\ WFrame
DoPushInt32 == PushInt32(<<65534, -1>>) /\ WFrame
DoPushUint64 == PushUint64(<<1, 2, 3, 61440>>) /\ WFrame
DoPushInt64 == PushInt64(<<0, 0, 0, -32768>>) /\ WFrame

NextWriter ==
    \/ DoPushBit
    \/ DoPushBits
    \/ DoPushBits16
    \/ DoPushBits32
    \/ DoPushBytes
    \/ DoPushUint16
    \/ DoPushInt16
    \/ DoPushUint32
    \/ DoPushInt32
    \/ DoPushUint64
    \/ DoPushInt64

SpecWriter == InitWriter /\ [][NextWriter]_vars

----------------------------------------------------------------------------
\* Write-then-read sessions: a value is pushed on a fresh streamWriter, a
\* reader is constructed over GetBytes() and the value is read back

U32Limbs == {0, 1, 255, 256, 32768, 48879, 57005, 65535}
U32Vals == {<<lo, hi>> : lo \in U32Limbs, hi \in U32Limbs}
PadVals == {0, 255}

InitRT ==
    /\ CreateStreamWriter
    /\ CreateStreamReader(<<>>)
    /\ CreateBitStream(<<>>)
    /\ rtpc = "start"
    /\ rtv = <<>>
    /\ rtbits = 0
    /\ rtpad = 0

\* PushBits(v, bitCount) with bitCount in 1..8 and v < 2^bitCount
RTPushBits ==
    /\ rtpc = "start"
    /\ \E n \in 1..bitsPerByte : \E v \in 0..(Pow2(n) - 1) :
          /\ PushBits(v, n)
          /\ rtv' = <<v>>
          /\ rtbits' = n
    /\ rtpc' = "pushed"
    /\ UNCHANGED <<rtpad, rvars, bvars>>

\* further bit pushes that complete the pending byte
RTPad ==
    /\ rtpc = "pushed"
    /\ \E p \in PadVals : PushBits(p, bitsPerByte - rtbits)
    /\ rtpad' = bitsPerByte - rtbits
    /\ rtpc' = "padded"
    /\ UNCHANGED <<rtv, rtbits, rvars, bvars>>

\* CreateBitStream(w.GetBytes()) (stream.go:302-311)
RTCreateBitStream ==
    /\ rtpc \in {"pushed", "padded"}
    /\ bdata' = GetBytes
    /\ dataPosition' = 0
    /\ current' = 0
    /\ bitCount' = 0
    /\ bop' = "none"
    /\ barg' = 0
    /\ bout' = "none"
    /\ bres' = 0
    /\ pdp' = 0
    /\ pcur' = 0
    /\ pbc' = 0
    /\ consumed' = 0
    /\ rtpc' = "built"
    /\ UNCHANGED <<rtv, rtbits, rtpad, rvars, wvars>>

\* ReadBits(bitCount) on the new BitStream
RTReadBits ==
    /\ rtpc = "built"
    /\ ReadBits(rtbits)
    /\ rtpc' = "read"
    /\ UNCHANGED <<rtv, rtbits, rtpad, rvars, wvars>>

\* PushUint32(v)
RTPushUint32 ==
    /\ rtpc = "start"
    /\ \E v \in U32Vals :
          /\ PushUint32(v)
          /\ rtv' = v
    /\ rtbits' = bitsPerByte * bytesPerint32
    /\ rtpc' = "pushed32"
    /\ UNCHANGED <<rtpad, rvars, bvars>>

\* CreateStreamReader(w.GetBytes()) (stream.go:23-30)
RTCreateStreamReader ==
    /\ rtpc = "pushed32"
    /\ rdata' = GetBytes
    /\ position' = 0
    /\ rop' = "none"
    /\ rarg' = 0
    /\ rerr' = FALSE
    /\ rval' = <<>>
    /\ rprev' = 0
    /\ rtpc' = "built32"
    /\ UNCHANGED <<rtv, rtbits, rtpad, wvars, bvars>>

\* ReadUInt32() on the new streamReader
RTReadUInt32 ==
    /\ rtpc = "built32"
    /\ ReadUInt32
    /\ rtpc' = "read32"
    /\ UNCHANGED <<rtv, rtbits, rtpad, wvars, bvars>>

NextRT ==
    \/ RTPushBits
    \/ RTPad
    \/ RTCreateBitStream
    \/ RTReadBits
    \/ RTPushUint32
    \/ RTCreateStreamReader
    \/ RTReadUInt32

SpecRT == InitRT /\ [][NextRT]_vars

----------------------------------------------------------------------------
Init == InitBits

Next == NextBits

Spec == Init /\ [][Next]_vars

----------------------------------------------------------------------------
\* Properties of BitStream (checked under SpecBits)

\* stream bit i (0-based): bit (i mod 8), LSB = 0, of data[i div 8]
StreamBit(i) == (bdata[(i \div 8) + 1] \div Pow2(i % 8)) % 2

RECURSIVE StreamBits(_, _)
\* the integer whose bit j is stream bit k+j, for j < n
StreamBits(k, n) ==
    IF n = 0 THEN 0 ELSE StreamBit(k) + 2 * StreamBits(k + 1, n - 1)

\* the bits not yet handed out before the last call
RemainingBefore == pbc + 8 * (Len(bdata) - pdp)

\* the stream's consumed-bit position
BitPos == 8 * dataPosition - bitCount

ReadOk == bop = "ReadBits" /\ bout = "ok"

\* C1: every successful ReadBits(n), n in 1..16, returns the next n
\* unconsumed stream bits (whenever the buffer holds them), bit i of the
\* result being stream bit k+i with k the bits consumed by earlier calls.
C1_ReadBitsReturnsNextBits ==
    (ReadOk /\ barg \in 1..maxBits /\ consumed <= 8 * Len(bdata))
        => bres = StreamBits(consumed - barg, barg)

\* C2: ReadBits(n), n in 1..16, fails whenever fewer than n unconsumed bits
\* remain (resident bits plus 8 per unread byte): a success means at least
\* n bits remained before the call.
C2_ReadBitsFailsWhenShort ==
    (ReadOk /\ barg \in 1..maxBits) => barg <= RemainingBefore

\* C5: when PeekByte succeeds, an immediately following ReadBits(8) succeeds,
\* returns the peeked value, and the pair advances the consumed-bit position
\* by exactly 8.
C5_PeekThenReadAgree ==
    [][(bop = "PeekByte" /\ bout = "ok" /\ bop' = "ReadBits" /\ barg' = 8)
          => (bout' = "ok" /\ bres' = bres
              /\ BitPos' = (8 * pdp - pbc) + 8)]_vars

\* C10: ReadBits(n) with n > 16 panics in every state, whatever the buffer
\* holds, and leaves the cursor, the accumulator and the resident-bit count
\* as they were.
C10_ReadBitsOver16Panics ==
    (bop = "ReadBits" /\ barg > 16)
        => (bout = "panic" /\ dataPosition = pdp /\ current = pcur
            /\ bitCount = pbc)

\* a 17-bit request made with bytes already pulled and bits resident
C10_Witness ==
    /\ bop = "ReadBits"
    /\ barg = 17
    /\ bout = "panic"
    /\ pdp = 2
    /\ pbc = 3
    /\ pcur > 0

----------------------------------------------------------------------------
\* Properties of streamReader (checked under SpecReader)

\* the reads that fail with io.EOF, and the bytes each asks for
CheckedReads ==
    {"ReadByte", "ReadBytes", "ReadUInt16", "ReadInt16", "ReadUInt32",
     "ReadInt32", "ReadUInt64", "ReadInt64"}

Asked ==
    CASE rop = "ReadByte" -> 1
      [] rop = "ReadBytes" -> rarg
      [] rop \in {"ReadUInt16", "ReadInt16"} -> 2
      [] rop \in {"ReadUInt32", "ReadInt32"} -> 4
      [] rop \in {"ReadUInt64", "ReadInt64"} -> 8
      [] OTHER -> 0

\* C4 (as claimed): EOF() returns true iff Position() == Size().
C4_EOFIffAtSize ==
    rop = "EOF" => (rval[1] <=> (position = Size))

\* C4 (amended): EOF() returns true iff Position() >= Size(), in every state
\* reads, SkipBytes and SetPosition can reach.
C4_EOFIffAtOrPastSize ==
    rop = "EOF" => (rval[1] <=> (position >= Size))

\* EOF() called with the cursor beyond the buffer
C4_Witness ==
    /\ rop = "EOF"
    /\ position > Size
    /\ Size > 0
    /\ rval[1]

\* C6: ReadByte, ReadBytes(n >= 1) and the fixed-width reads fail with
\* io.EOF whenever fewer bytes remain than they ask for, and a failing read
\* leaves the cursor where it was.
C6_FailedReadKeepsCursor ==
    (rop \in CheckedReads /\ Asked >= 1)
        => /\ (rprev + Asked > Size) => rerr
           /\ rerr => position = rprev

\* a 32-bit read with some, but fewer than four, bytes left
C6_Witness ==
    /\ rop = "ReadUInt32"
    /\ rerr
    /\ rprev < Size
    /\ rprev + 4 > Size
    /\ position = rprev

----------------------------------------------------------------------------
\* Properties of streamWriter (checked under SpecWriter)

DeclaredMax ==
    CASE wop = "PushBits" -> 8
      [] wop = "PushBits16" -> 16
      [] wop = "PushBits32" -> 32
      [] OTHER -> 0

\* bit i (LSB = 0) of byte b, as a boolean
BitOf(b, i) == (b \div Pow2(i)) % 2 = 1

\* C7: a PushBits / PushBits16 / PushBits32 call never pushes more bits into
\* the stream than its declared maximum of 8 / 16 / 32.
C7_PushBitsWithinMaximum ==
    wop \in {"PushBits", "PushBits16", "PushBits32"}
        => Len(pushed) - Len(wprev.pushed) <= DeclaredMax

\* C8: after k bit pushes and no byte-level push (PushBits* within their
\* maxima), GetBytes() holds floor(k/8) bytes, bit i of byte j is pushed bit
\* 8*j+i, and the last k mod 8 bits are pending in the scratch byte.
C8_BitPackingOrder ==
    (~byteLevel /\ ~overMax) =>
        LET k == Len(pushed) IN
        /\ Len(GetBytes) = k \div 8
        /\ \A j \in 1..Len(GetBytes) : \A i \in 0..7 :
              BitOf(GetBytes[j], i) = pushed[8 * (j - 1) + i + 1]
        /\ bitOffset = k % 8
        /\ \A i \in 0..((k % 8) - 1) :
              BitOf(bitCache, i) = pushed[8 * (k \div 8) + i + 1]

\* eight bits completed the byte 0xA5 and a ninth, set, bit is pending
C8_Witness ==
    /\ ~byteLevel
    /\ ~overMax
    /\ Len(pushed) = 9
    /\ GetBytes = <<165>>
    /\ bitOffset = 1
    /\ bitCache = 1

----------------------------------------------------------------------------
\* Properties of the write-then-read sessions (checked under SpecRT)

\* C3 (as claimed): PushBits(v, bitCount) on a fresh writer, then ReadBits(
\* bitCount) on a BitStream over GetBytes(), returns v.
C3_RoundTripAsPushed ==
    (rtpc = "read" /\ rtpad = 0) => bres = rtv[1]

\* C3 (amended): once further bit pushes have completed the byte (8 - bitCount
\* of them, none for bitCount = 8), ReadBits(bitCount) on a BitStream over
\* GetBytes() succeeds and returns v.
C3_RoundTripCompletedByte ==
    (rtpc = "read" /\ rtbits + rtpad = bitsPerByte)
        => (bout = "ok" /\ bres = rtv[1])

\* the 3-bit value 5 read back after five padding bits
C3_Witness ==
    /\ rtpc = "read"
    /\ rtbits = 3
    /\ rtpad = 5
    /\ rtv = <<5>>
    /\ GetBytes = <<253>>
    /\ bres = 5

\* C9: PushUint32(v) on a fresh writer, then ReadUInt32() on a streamReader
\* over GetBytes(), returns v without error and leaves the cursor at 4 with
\* EOF() true.
C9_Uint32RoundTrip ==
    rtpc = "read32" => (rval = rtv /\ ~rerr /\ position = 4 /\ EOF)

\* 0xDEADBEEF written and read back
C9_Witness ==
    /\ rtpc = "read32"
    /\ rtv = <<48879, 57005>>
    /\ GetBytes = <<239, 190, 173, 222>>
    /\ rval = rtv

----------------------------------------------------------------------------
\* Further properties of streamReader (checked under SpecReader)

Min(a, b) == IF a <= b THEN a ELSE b

\* the bytes between the cursor before the last call and the end
AvailableBefore == IF rprev >= Size THEN 0 ELSE Size - rprev

\* C11: Read(p) returns n = min(len(p), max(0, Size - Position)), puts
\* data[pos..pos+n-1] in p[0..n-1], advances the cursor by exactly n, and
\* returns io.EOF iff no byte remains after the call.
C11_ReadFillsWhatIsAvailable ==
    rop = "Read" =>
        LET n == rval[1] IN
        /\ n = Min(rarg, AvailableBefore)
        /\ rval[2] = SubSeq(rdata, rprev + 1, rprev + n)
        /\ position = rprev + n
        /\ rerr <=> (position >= Size)

\* a partial fill: ten bytes asked for with three left
C11_Witness ==
    /\ rop = "Read"
    /\ rarg = MaxRLen + 1
    /\ rprev = 1
    /\ Size = 4
    /\ rval = <<3, <<170, 255, 84>>>>
    /\ rerr

\* C12: ReadBytes(count) with count <= 0 returns an empty result and no
\* error and leaves the cursor unchanged, also at or beyond the end.
C12_ReadBytesNothingAsked ==
    (rop = "ReadBytes" /\ rarg <= 0)
        => (rval = <<>> /\ ~rerr /\ position = rprev)

\* ReadBytes(0) with the cursor beyond the end
C12_Witness ==
    /\ rop = "ReadBytes"
    /\ rarg = 0
    /\ rprev > Size
    /\ Size > 0
    /\ ~rerr
    /\ position = rprev

----------------------------------------------------------------------------
\* Further properties of streamWriter (checked under SpecWriter)

ByteLevelPushes ==
    {"PushBytes", "PushUint16", "PushInt16", "PushUint32", "PushInt32",
     "PushUint64", "PushInt64"}

BitLevelPushes == {"PushBit", "PushBits", "PushBits16", "PushBits32"}

\* byte k (0-based) of the two's complement, least significant first, of a
\* value given as 16-bit limbs
ByteOfValue(val, k) ==
    (val[(k \div 2) + 1] \div (IF k % 2 = 0 THEN 1 ELSE 256)) % 256

\* the bytes the last byte-level push was asked to write
OwnBytes ==
    CASE wop = "PushBytes" -> warg
      [] wop \in {"PushUint16", "PushInt16"} -> [k \in 1..2 |-> ByteOfValue(warg, k - 1)]
      [] wop \in {"PushUint32", "PushInt32"} -> [k \in 1..4 |-> ByteOfValue(warg, k - 1)]
      [] wop \in {"PushUint64", "PushInt64"} -> [k \in 1..8 |-> ByteOfValue(warg, k - 1)]
      [] OTHER -> <<>>

RECURSIVE ByteFromBits(_, _, _)
\* the byte whose bit i is pushed bit from+i+1, for i in at..7
ByteFromBits(from, at, weight) ==
    IF at > 7 THEN 0
    ELSE (IF pushed[from + at + 1] THEN weight ELSE 0)
            + ByteFromBits(from, at + 1, 2 * weight)

\* C13: after every streamWriter call, in any interleaving and with any bit
\* count, the bit offset is in 0..7 and the scratch byte has no bit set at
\* an index >= the offset.
C13_ScratchInvariant ==
    /\ bitOffset \in 0..7
    /\ bitCache \in 0..255
    /\ \A i \in bitOffset..7 : ~BitOf(bitCache, i)

\* bits pending after an over-maximum push and a byte-level push
C13_Witness ==
    /\ overMax
    /\ byteLevel
    /\ wop \in BitLevelPushes
    /\ bitOffset = 4
    /\ bitCache > 0

\* C14: a byte-level push appends exactly its own bytes and leaves the bit
\* offset and the scratch byte as they were, also with bits pending; a bit
\* push appends the bytes it completes after everything pushed before it.
C14_InterleavingHazard ==
    /\ wop \in ByteLevelPushes =>
          /\ GetBytes = wprev.data \o OwnBytes
          /\ bitOffset = wprev.off
          /\ bitCache = wprev.cache
    /\ wop \in BitLevelPushes =>
          LET done == Len(wprev.pushed) \div 8
              new  == (Len(pushed) \div 8) - done
          IN  GetBytes = wprev.data \o
                  [j \in 1..new |-> ByteFromBits(8 * (done + j - 1), 0, 1)]

\* three bits pending, PushUint16(0x1234) in between, then eight more bits:
\* the completed byte follows the two bytes of the word
C14_Witness ==
    /\ wop = "PushBits"
    /\ warg = 8
    /\ wprev.off = 3
    /\ wprev.data = <<52, 18>>
    /\ GetBytes = <<52, 18, 45>>
    /\ bitOffset = 3

----------------------------------------------------------------------------
\* Further properties of BitStream (checked under SpecBitsFull)

FailedRead == bop \in {"ReadBits", "PeekByte"} /\ bout = "eod"

\* C15: a ReadBits(n), n in 0..16, or PeekByte that fails leaves the cursor,
\* the accumulator and the resident-bit count as they were, and the bits
\* that were resident are returned by a following smaller ReadBits.
C15_FailedReadKeepsState ==
    /\ [](FailedRead =>
            (dataPosition = pdp /\ current = pcur /\ bitCount = pbc))
    /\ [][(FailedRead /\ bop' = "ReadBits" /\ barg' \in 1..pbc)
            => (bout' = "ok" /\ bres' = pcur % Pow2(barg'))]_vars

\* twelve bits asked for with three resident and the buffer exhausted
C15_Witness ==
    /\ bop = "ReadBits"
    /\ barg = 12
    /\ bout = "eod"
    /\ pbc = 3
    /\ pcur = 7
    /\ bitCount = 3
    /\ dataPosition = Len(bdata)

\* C17: a successful ReadBits(n), n in 0..16, returns a value in 0..2^n - 1
\* and a successful PeekByte one in 0..255, so -1 is returned iff the call
\* failed for end of data.
C17_SentinelNeverCollides ==
    /\ (ReadOk /\ barg \in 0..maxBits) => bres \in 0..(Pow2(barg) - 1)
    /\ (bop = "PeekByte" /\ bout = "ok") => bres \in 0..255
    /\ bop \in {"ReadBits", "PeekByte"} => (bres = -1 <=> bout = "eod")

\* sixteen set bits, made resident by two EnsureBits calls, read at once
C17_Witness ==
    /\ ReadOk
    /\ barg = 16
    /\ pbc = 16
    /\ bres = 65535
    /\ bitCount = 0

----------------------------------------------------------------------------
\* Properties of the fixed-width reads and of SkipBytes (checked under
\* SpecReader)

FixedReads == CheckedReads \ {"ReadBytes"}

SignedReads == {"ReadInt16", "ReadInt32", "ReadInt64"}

\* the sum of data[p+i] * 256^i over i < w, as 16-bit limbs, least
\* significant first
LittleEndianValue(p, w) ==
    IF w = 1 THEN <<rdata[p + 1]>>
    ELSE [j \in 1..(w \div 2) |-> rdata[p + 2 * j - 1] + 256 * rdata[p + 2 * j]]

\* the same bits as two's complement: 2^(8w) is taken off when the top bit
\* is set, which lowers the top limb by 2^16
TwosComplement(val) ==
    [j \in 1..Len(val) |->
        IF j = Len(val) THEN val[j] - 65536 * (val[j] \div 32768) ELSE val[j]]

\* C16: a fixed-width read of w bytes at cursor p with p + w <= Size succeeds,
\* returns the little-endian value of data[p..p+w-1] (as two's complement for
\* the signed reads), advances the cursor by w, and leaves EOF() true exactly
\* when p + w = Size.
C16_FixedWidthLittleEndian ==
    (rop \in FixedReads /\ rprev + Asked <= Size) =>
        /\ ~rerr
        /\ rval = (IF rop \in SignedReads
                     THEN TwosComplement(LittleEndianValue(rprev, Asked))
                     ELSE LittleEndianValue(rprev, Asked))
        /\ position = rprev + Asked
        /\ EOF <=> (rprev + Asked = Size)

\* the bytes 0xFF 0xFE read as the int16 -257, ending at the end of the data
C16_Witness ==
    /\ rop = "ReadInt16"
    /\ rdata = <<255, 254>>
    /\ rprev = 0
    /\ rval = <<-257>>
    /\ position = 2
    /\ EOF

\* C18: SkipBytes(count) never leaves Position() smaller than it was, for
\* every int count.
C18_SkipBytesNeverMovesBack ==
    rop = "SkipBytes" => position >= rprev

====
